---------------------------- MODULE Spec2Model ----------------------------
(***************************************************************************)
(* The media transcoding pipeline of surtr-media: the upload-confirmed     *)
(* event handler processMedia (backend/processing/processing.go), the      *)
(* collaborator endpoints of backend/media/media.go that write the same    *)
(* media row, and the status query GetJobStatus.                           *)
(*                                                                         *)
(* Every SQL statement, object-store call and external process of the      *)
(* handler is one atomic step; handler-local statements are folded into    *)
(* the step that follows them.  Strings are sequences of tokens: single    *)
(* characters where the code inspects characters (file names), whole       *)
(* words elsewhere.                                                        *)
(*                                                                         *)
(* Beside it, with specifications of their own: GetMedia (GetMediaSpec),   *)
(* the collection service with its sharing rules (ShareSpec), and the      *)
(* in-memory session table of the auth service with the goroutines that    *)
(* access it (AuthSpec).                                                   *)
(***************************************************************************)
EXTENDS Integers, Sequences, FiniteSets, TLC

(* ------------------------------ bounds --------------------------------- *)
MaxMedia == 1
MaxRuns == 2
MaxCollections == 1
MaxUUIDs == 2
MaxUpdates == 2
MaxTokens == 2
MaxHandlers == 2
MaxTime == 2

(* ------------------------------ inputs --------------------------------- *)
\* File names a client may pass to SignUpload (req.Filename).
Filenames ==
    { <<"a", ".", "M", "O", "V">>,
      <<"a", ".", "p", "d", "f">>,
      <<"m", "o", "v">> }

Users == {"7"}

\* The ids uuid.New() produces, in the order it produces them.
IDPool == <<"m1", "m2", "m3", "m4">>

\* req.SizeBytes of ConfirmUpload (0: not given).
SizeInputs == {0, 5}

\* stat.Size() of the encoder's output file.
OutputSizes == {3}

\* What ffprobe prints: a decimal number (in tenths of a second) or other text.
ProbeOutputs == { <<"num", 125>>, <<"num", 4>>, <<"text">> }

\* How a run of ffprobe that is not killed ends: exit status 0 ("ok") or
\* not ("failed"), and what it has printed.
ProbeRuns == ({"ok"} \X ProbeOutputs) \cup { <<"failed", <<"num", 125>> >> }

\* A nullable column, or a Go value that may be absent: <<>> or <<v>>.
NULL == <<>>
Some(v) == <<v>>
NOW == "NOW"

(* --------------------------- strings ----------------------------------- *)
ToLowerChar(c) ==
    CASE c = "M" -> "m"
      [] c = "P" -> "p"
      [] c = "O" -> "o"
      [] c = "V" -> "v"
      [] OTHER -> c

ToLower(s) == [i \in 1..Len(s) |-> ToLowerChar(s[i])]

\* filepath.Ext: the suffix beginning at the final dot in the final
\* slash-separated element of the path; empty if there is no dot.
RECURSIVE ExtFrom(_, _)
ExtFrom(path, i) ==
    IF i = 0 \/ path[i] = "/" THEN <<>>
    ELSE IF path[i] = "." THEN SubSeq(path, i, Len(path))
    ELSE ExtFrom(path, i - 1)

Ext(path) == ExtFrom(path, Len(path))

videoExts ==
    << <<".", "m", "p", "4">>, <<".", "m", "k", "v">>, <<".", "a", "v", "i">>,
       <<".", "m", "o", "v">>, <<".", "w", "m", "v">>, <<".", "f", "l", "v">>,
       <<".", "w", "e", "b", "m">>, <<".", "m", "4", "v">>,
       <<".", "m", "p", "e", "g">>, <<".", "m", "p", "g">>,
       <<".", "3", "g", "p">> >>

\* A check that takes every key with an extension for a video.
isVideoFile_AnyExtension(key) == Ext(key) # <<>>

isVideoFile(key) ==
    LET ext == ToLower(Ext(key))
    IN  \E k \in 1..Len(videoExts) : ext = videoExts[k]

\* fmt.Sprintf("original/%d/%s/%s", userData.UserID, mediaID, req.Filename)
OriginalKey(user, mediaID, filename) ==
    <<"original", "/", user, "/", mediaID, "/">> \o filename

\* A key that lacks the container extension.
ProcessedKey_NoExtension(mediaID) == <<"processed", "/", mediaID>>

\* fmt.Sprintf("processed/%s.mp4", mediaID)
ProcessedKey(mediaID) == <<"processed", "/", mediaID, ".", "m", "p", "4">>

\* fmt.Sscanf(strings.TrimSpace(out), "%f", &duration); int(duration)
ParseDuration(out) == IF out[1] = "num" THEN out[2] \div 10 ELSE 0

(* ----------------------------- state ----------------------------------- *)
VARIABLES
    media,      \* table media (media/migrations/1_create_media.up.sql):
                \* id -> row, for the ids that have a row
    nextID,     \* how many media ids uuid.New() has produced (media.go:98)
    jobs,       \* table processing_jobs, in order of created_at
                \* (processing/migrations/1_create_processing.up.sql)
    objects,    \* keys present in the bucket
    published,  \* events published on MediaUploadedTopic (media.go:186)
    runs,       \* processMedia invocations, in order of delivery: the event,
                \* the handler's position and locals, and prior: the status
                \* ready or failed the item had at delivery if a run for it
                \* had completed by then, and did: the calls the handler has
                \* made so far, in order.  tempDir: its scratch directory
                \* exists; proc: the external process it has started and not
                \* yet reaped; probeRun: how its probe process ends if left
                \* alone, and once reaped how it ended, until the upload of
                \* the output file
    resp,       \* what the query just executed returned
    \* -- collection service (src/unnamed/part_000) --
    collections,        \* table collections: id -> row
    collection_items,   \* table collection_items: <<collection_id, media_id>>
    nextUUID,           \* how many share tokens have been generated
    updates,            \* UpdateShare calls in flight: position and locals
    retired,            \* share tokens a successful regeneration replaced
    \* -- auth service (auth.go) --
    sessions,           \* the map sessions: token -> Session
    nextToken,          \* how many session tokens have been generated
    issued,             \* every session a Callback has returned, by token
    now,                \* time.Now(), in units of the session lifetime
    handlers,           \* auth requests in flight: position and locals
    revoked             \* tokens a Logout that has returned had to revoke

shareVars == <<collections, collection_items, nextUUID, updates, retired>>

authVars == <<sessions, nextToken, issued, now, handlers, revoked>>

vars == <<media, nextID, jobs, objects, published, runs, resp,
          shareVars, authVars>>

NoResp == [kind |-> "none"]

\* No UpdateShare call in this slot.
NoUpdate ==
    [pc |-> "idle", user |-> "0", id |-> "", is_public |-> <<>>,
     regenerate |-> FALSE, currentIsPublic |-> FALSE, currentToken |-> ""]

\* No auth request in this slot.
NoHandler ==
    [pc |-> "idle", op |-> "none", user |-> "0", token |-> "", todo |-> {},
     before |-> {}]

Init ==
    /\ media = <<>>
    /\ nextID = 0
    /\ jobs = <<>>
    /\ objects = {}
    /\ published = {}
    /\ runs = <<>>
    /\ resp = NoResp
    /\ collections = <<>>
    /\ collection_items = {}
    /\ nextUUID = 0
    /\ updates = [k \in 1..MaxUpdates |-> NoUpdate]
    /\ retired = {}
    /\ sessions = <<>>
    /\ nextToken = 0
    /\ issued = <<>>
    /\ now = 0
    /\ handlers = [h \in 1..MaxHandlers |-> NoHandler]
    /\ revoked = {}

HasRow(id) == id \in DOMAIN media

StatusOf(id) == IF HasRow(id) THEN media[id].status ELSE "absent"

(* --------------------- collaborators (media.go) ------------------------ *)
SignUpload(user, filename) ==
    /\ nextID < MaxMedia
    /\ LET id == IDPool[nextID + 1]
       IN  /\ nextID' = nextID + 1
           /\ \/ media' = (id :> [owner_id |-> user,
                                  s3_key_original |-> OriginalKey(user, id, filename),
                                  s3_key_processed |-> NULL,
                                  size_bytes |-> NULL,
                                  duration_seconds |-> NULL,
                                  status |-> "uploading"]) @@ media
              \/ media' = media      \* client, presign or insert failed
    /\ resp' = NoResp
    /\ UNCHANGED <<jobs, objects, published, runs>>
    /\ UNCHANGED <<shareVars, authVars>>

\* The client PUTs the file to the presigned URL.
ClientUpload(id) ==
    /\ HasRow(id)
    /\ media[id].s3_key_original \notin objects
    /\ objects' = objects \cup {media[id].s3_key_original}
    /\ resp' = NoResp
    /\ UNCHANGED <<media, nextID, jobs, published, runs>>
    /\ UNCHANGED <<shareVars, authVars>>

\* A confirmation that marks the item as being processed.
ConfirmUpload_SetsProcessing(user, id, size) ==
    /\ HasRow(id)
    /\ media[id].owner_id = user
    /\ LET row == media[id]
           event == [media_id |-> id, s3_key |-> row.s3_key_original,
                     owner_id |-> row.owner_id]
       IN  /\ media' = [media EXCEPT ![id].status = "processing"]
           /\ published' = published \cup {event}
    /\ resp' = NoResp
    /\ UNCHANGED <<nextID, jobs, objects, runs>>
    /\ UNCHANGED <<shareVars, authVars>>

\* The SELECT, the UPDATE and the Publish of one request, taken together.
ConfirmUpload(user, id, size) ==
    /\ HasRow(id)
    /\ media[id].owner_id = user
    /\ LET row == media[id]
           queued == [row EXCEPT !.status = "queued",
                                 !.size_bytes = IF size # 0 THEN Some(size) ELSE @]
           event == [media_id |-> id, s3_key |-> row.s3_key_original,
                     owner_id |-> row.owner_id]
       IN  \/ UNCHANGED <<media, published>>          \* UPDATE failed
           \/ /\ media' = [media EXCEPT ![id] = queued]
              /\ \/ published' = published \cup {event}
                 \/ published' = published            \* Publish failed
    /\ resp' = NoResp
    /\ UNCHANGED <<nextID, jobs, objects, runs>>
    /\ UNCHANGED <<shareVars, authVars>>

\* The SELECT, the RemoveObject calls (errors dropped) and the DELETE of one
\* request, taken together.
DeleteMedia(user, id) ==
    /\ HasRow(id)
    /\ media[id].owner_id = user
    /\ LET row == media[id]
           \* COALESCE(s3_key_processed, ''), removed when not ""
           processed == IF row.s3_key_processed = NULL THEN <<>>
                        ELSE row.s3_key_processed[1]
           keys == {row.s3_key_original} \cup
                   (IF processed # <<>> THEN {processed} ELSE {})
       IN  /\ \E removed \in SUBSET keys : objects' = objects \ removed
           /\ \/ media' = [i \in DOMAIN media \ {id} |-> media[i]]
              \/ media' = media                       \* DELETE failed
    /\ resp' = NoResp
    /\ UNCHANGED <<nextID, jobs, published, runs>>
    /\ UNCHANGED <<shareVars, authVars>>

\* The users a request to GetMedia can come from: the owner and one other.
Requesters == Users \cup {"8"}

\* COALESCE(column, 0)
Coalesce0(col) == IF col = NULL THEN 0 ELSE col[1]

\* A stream that is always the original upload.
StreamKey_Original(row) == row.s3_key_original

\* s3Key := s3KeyProcessed (COALESCE(s3_key_processed, ''));
\* if s3Key == "" { s3Key = s3KeyOriginal }
StreamKey(row) ==
    LET s3KeyProcessed == IF row.s3_key_processed = NULL THEN <<>>
                          ELSE row.s3_key_processed[1]
    IN  IF s3KeyProcessed = <<>> THEN row.s3_key_original ELSE s3KeyProcessed

\* GetMedia: the SELECT (one statement: the row as it is then), the owner
\* check, and for a ready item getMinioClient and PresignedGetObject, whose
\* errors leave StreamURL empty.  The URL is modelled by the key it signs.
GetMedia(user, id) ==
    /\ IF ~HasRow(id)
       THEN resp' = [kind |-> "media error", id |-> id, code |-> "not_found"]
       ELSE IF media[id].owner_id # user
       THEN resp' = [kind |-> "media error", id |-> id,
                     code |-> "permission_denied"]
       ELSE LET row == media[id]
                out(url) == [kind |-> "media", id |-> id,
                             status |-> row.status,
                             size_bytes |-> Coalesce0(row.size_bytes),
                             duration_seconds |-> Coalesce0(row.duration_seconds),
                             stream_url |-> url]
            IN  IF row.status = "ready"
                THEN \E signed \in BOOLEAN :
                        resp' = out(IF signed THEN Some(StreamKey(row)) ELSE NULL)
                ELSE resp' = out(NULL)
    /\ UNCHANGED <<media, nextID, jobs, objects, published, runs>>
    /\ UNCHANGED <<shareVars, authVars>>

(* ------------------- processMedia (processing.go) ---------------------- *)
\* error values: the message err.Error() gives, as a sequence of parts
ErrDB == <<"db: statement failed">>
ErrCanceled == <<"context canceled">>
ErrTransport == <<"connection refused">>
ErrNoSuchKey == <<"The specified key does not exist.">>
ErrExit == <<"exit status 1">>
ErrKilled == <<"signal: killed">>
ErrLocal == <<"no space left on device">>
ErrNotFound == <<"executable file not found in $PATH">>

\* fmt.Errorf(prefix + ": %w", err)
Wrap(prefix, err) == <<prefix, ": ">> \o err

\* What the encoder prints on stdout and stderr when it fails.
EncoderOutput == <<"a.mov: Invalid data found when processing input">>

Terminal == {"ready", "failed"}

\* The outcomes of a call bound to the handler's context.  A cancellation is
\* seen by the handler at its next such call, which is where the model places
\* it; from then on every such call finds the context cancelled.
CtxOutcomes(r) ==
    IF r.cancelled THEN {"cancelled"} ELSE {"ok", "failed", "cancelled"}

Seen(r, o) == [r EXCEPT !.cancelled = (o = "cancelled")]

CtxErr(o, other) == IF o = "cancelled" THEN ErrCanceled ELSE other

SetRun(i, r) == runs' = [runs EXCEPT ![i] = r]

\* The handler makes the call op.
Did(r, op) == [r EXCEPT !.did = Append(@, op)]

\* The handler returns e (NULL: nil).  Its locals and its context end with
\* it; what stays is what the transport saw, and the job row it made.
Returned(r, e) ==
    [r EXCEPT !.pc = "done", !.ret = IF e = NULL THEN "nil" ELSE "error",
              !.err = NULL, !.cancelled = FALSE, !.processedKey = <<>>,
              !.did = <<>>, !.probeRun = <<>>]

\* A handler that returns the error of a failed INSERT.
processMedia_InsertJob_Fatal(msg) ==
    /\ Len(runs) < MaxRuns
    /\ msg \in published
    /\ LET r == [media_id |-> msg.media_id, s3_key |-> msg.s3_key,
                 pc |-> "setProcessing", jobID |-> 0, cancelled |-> FALSE,
                 err |-> NULL, ret |-> "none", processedKey |-> <<>>,
                 tempDir |-> FALSE, uploaded |-> FALSE, did |-> <<"insert">>,
                 proc |-> "none", probeRun |-> <<>>,
                 prior |-> "none"]
           row == [media_id |-> msg.media_id, status |-> "processing",
                   error_message |-> NULL, started_at |-> Some(NOW),
                   completed_at |-> NULL]
       IN  \E o \in CtxOutcomes(r) :
             IF o = "ok"
             THEN /\ jobs' = Append(jobs, row)
                  /\ runs' = Append(runs, [r EXCEPT !.jobID = Len(jobs) + 1])
             ELSE /\ jobs' = jobs
                  /\ runs' = Append(runs, Returned(r, Some(CtxErr(o, ErrDB))))
    /\ resp' = NoResp
    /\ UNCHANGED <<media, nextID, objects, published>>
    /\ UNCHANGED <<shareVars, authVars>>

\* The transport delivers a published event (again, if it did before): the
\* handler starts and runs its first statement, the INSERT of the job row.
processMedia_InsertJob(msg) ==
    /\ Len(runs) < MaxRuns
    /\ msg \in published
    /\ LET r == [media_id |-> msg.media_id, s3_key |-> msg.s3_key,
                 pc |-> "setProcessing", jobID |-> 0, cancelled |-> FALSE,
                 err |-> NULL, ret |-> "none", processedKey |-> <<>>,
                 tempDir |-> FALSE, uploaded |-> FALSE, did |-> <<"insert">>,
                 proc |-> "none", probeRun |-> <<>>,
                 prior |-> IF /\ StatusOf(msg.media_id) \in Terminal
                              /\ \E k \in 1..Len(runs) :
                                    /\ runs[k].media_id = msg.media_id
                                    /\ runs[k].pc = "done"
                           THEN StatusOf(msg.media_id) ELSE "none"]
           row == [media_id |-> msg.media_id, status |-> "processing",
                   error_message |-> NULL, started_at |-> Some(NOW),
                   completed_at |-> NULL]
       IN  \E o \in CtxOutcomes(r) :
             IF o = "ok"
             THEN /\ jobs' = Append(jobs, row)
                  /\ runs' = Append(runs, [r EXCEPT !.jobID = Len(jobs) + 1])
             ELSE /\ jobs' = jobs                      \* logged, not returned
                  /\ runs' = Append(runs, Seen(r, o))
    /\ resp' = NoResp
    /\ UNCHANGED <<media, nextID, objects, published>>
    /\ UNCHANGED <<shareVars, authVars>>

\* A status write that removes the row of a failed item.
SetStatus_DeleteFailed(id, st) ==
    IF st = "failed" THEN [k \in DOMAIN media \ {id} |-> media[k]]
    ELSE IF HasRow(id) THEN [media EXCEPT ![id].status = st] ELSE media

SetStatus(id, st) ==
    IF HasRow(id) THEN [media EXCEPT ![id].status = st] ELSE media

\* A handler that logs a failed status write and goes on.
processMedia_SetProcessing_Continue(i) ==
    /\ i \in 1..Len(runs)
    /\ runs[i].pc = "setProcessing"
    /\ LET r == Did(runs[i], "setProcessing")
       IN  \E o \in CtxOutcomes(r) :
             /\ media' = IF o = "ok" THEN SetStatus(r.media_id, "processing")
                         ELSE media
             /\ SetRun(i, [Seen(r, o) EXCEPT !.pc = "begin"])
    /\ resp' = NoResp
    /\ UNCHANGED <<nextID, jobs, objects, published>>
    /\ UNCHANGED <<shareVars, authVars>>

\* UPDATE media SET status = 'processing' WHERE id = $1; on error, return err
processMedia_SetProcessing(i) ==
    /\ i \in 1..Len(runs)
    /\ runs[i].pc = "setProcessing"
    /\ LET r == Did(runs[i], "setProcessing")
       IN  \E o \in CtxOutcomes(r) :
             IF o = "ok"
             THEN /\ media' = SetStatus(r.media_id, "processing")
                  /\ SetRun(i, [r EXCEPT !.pc = "begin"])
             ELSE /\ media' = media
                  /\ SetRun(i, Returned(r, Some(CtxErr(o, ErrDB))))
    /\ resp' = NoResp
    /\ UNCHANGED <<nextID, jobs, objects, published>>
    /\ UNCHANGED <<shareVars, authVars>>

\* An error return that leaves the scratch directory behind.
TranscodeFailed_NoCleanup(r, e) ==
    [r EXCEPT !.pc = "markFailed", !.err = Some(e), !.probeRun = <<>>]

\* transcodeVideo returned err: back in processMedia, at "Update status to
\* failed".  The deferred os.RemoveAll(tempDir) has run.
TranscodeFailed(r, e) ==
    [r EXCEPT !.pc = "markFailed", !.err = Some(e), !.tempDir = FALSE,
              !.probeRun = <<>>]

\* transcodeVideo: getMinioClient, os.MkdirTemp, defer os.RemoveAll(tempDir)
transcodeVideo_Begin(i) ==
    /\ i \in 1..Len(runs)
    /\ runs[i].pc = "begin"
    /\ LET r == runs[i]
       IN  \/ SetRun(i, TranscodeFailed(r,
                  Wrap("failed to create MinIO client", ErrTransport)))
           \/ SetRun(i, TranscodeFailed(r,
                  Wrap("failed to create temp directory", ErrLocal)))
           \/ SetRun(i, [r EXCEPT !.pc = "download", !.tempDir = TRUE])
    /\ resp' = NoResp
    /\ UNCHANGED <<media, nextID, jobs, objects, published>>
    /\ UNCHANGED <<shareVars, authVars>>

\* transcodeVideo, from client.GetObject to the isVideoFile check
transcodeVideo_Download(i) ==
    /\ i \in 1..Len(runs)
    /\ runs[i].pc = "download"
    /\ LET r == Did(runs[i], "download")
       IN  \E o \in CtxOutcomes(r) :
             IF o = "ok" /\ r.s3_key \in objects
             THEN IF isVideoFile(r.s3_key)
                  THEN SetRun(i, [r EXCEPT !.pc = "encode"])
                  ELSE SetRun(i, [r EXCEPT !.pc = "setReady", !.tempDir = FALSE,
                                           !.processedKey = <<>>])
             ELSE SetRun(i, TranscodeFailed(Seen(r, o),
                     Wrap("failed to download file",
                          IF o = "ok" THEN ErrNoSuchKey
                          ELSE CtxErr(o, ErrTransport))))
    /\ resp' = NoResp
    /\ UNCHANGED <<media, nextID, jobs, objects, published>>
    /\ UNCHANGED <<shareVars, authVars>>

\* exec.CommandContext(ctx, "ffmpeg", ...).CombinedOutput(), its Start: with
\* the context already cancelled no process is started
transcodeVideo_Encode(i) ==
    /\ i \in 1..Len(runs)
    /\ runs[i].pc = "encode"
    /\ LET r == Did(runs[i], "encode")
       IN  \E o \in CtxOutcomes(r) :
             IF o = "ok"
             THEN SetRun(i, [r EXCEPT !.pc = "encodeWait", !.proc = "ffmpeg"])
             ELSE SetRun(i, TranscodeFailed(Seen(r, o),
                     Wrap("ffmpeg transcoding failed", CtxErr(o, ErrNotFound))))
    /\ resp' = NoResp
    /\ UNCHANGED <<media, nextID, jobs, objects, published>>
    /\ UNCHANGED <<shareVars, authVars>>

\* A wait that gives up on cancellation and leaves the process running.
transcodeVideo_EncodeWait_Orphan(i) ==
    /\ i \in 1..Len(runs)
    /\ runs[i].pc = "encodeWait"
    /\ LET r == runs[i]
       IN  \E o \in CtxOutcomes(r) :
             IF o = "ok"
             THEN SetRun(i, [r EXCEPT !.pc = "probe", !.proc = "none"])
             ELSE SetRun(i, TranscodeFailed(
                     [Seen(r, o) EXCEPT !.proc = IF o = "cancelled" THEN @
                                                 ELSE "none"],
                     Wrap("ffmpeg transcoding failed", CtxErr(o, ErrExit))))
    /\ resp' = NoResp
    /\ UNCHANGED <<media, nextID, jobs, objects, published>>
    /\ UNCHANGED <<shareVars, authVars>>

\* CombinedOutput(), its Wait: the process exits, or the context is cancelled
\* and the process is killed and reaped
transcodeVideo_EncodeWait(i) ==
    /\ i \in 1..Len(runs)
    /\ runs[i].pc = "encodeWait"
    /\ LET r == [runs[i] EXCEPT !.proc = "none"]
       IN  \E o \in CtxOutcomes(r) :
             IF o = "ok"
             THEN SetRun(i, [r EXCEPT !.pc = "probe"])
             ELSE SetRun(i, TranscodeFailed(Seen(r, o),
                     Wrap("ffmpeg transcoding failed",
                          IF o = "cancelled" THEN ErrKilled ELSE ErrExit)))
    /\ resp' = NoResp
    /\ UNCHANGED <<media, nextID, jobs, objects, published>>
    /\ UNCHANGED <<shareVars, authVars>>

\* A probe whose exit status is not looked at.
getVideoDuration_IgnoreExit(o, out) == ParseDuration(out)

\* cmd.Output() of ffprobe: an error gives 0, else the number parsed
getVideoDuration(o, out) == IF o # "ok" THEN 0 ELSE ParseDuration(out)

\* if duration > 0 { UPDATE media SET duration_seconds = $2 WHERE id = $1 }
\* (its error dropped); r is the run after the probe
WriteDuration(i, r, duration) ==
    IF duration > 0
    THEN \E w \in CtxOutcomes(r) :
           /\ media' = IF w = "ok" /\ HasRow(r.media_id)
                       THEN [media EXCEPT ![r.media_id].duration_seconds
                                             = Some(duration)]
                       ELSE media
           /\ SetRun(i, [Seen(r, w) EXCEPT !.pc = "upload"])
    ELSE /\ media' = media
         /\ SetRun(i, [r EXCEPT !.pc = "upload"])

\* getVideoDuration, the Start of cmd.Output(): when no process is started
\* the duration is 0 and transcodeVideo goes on
transcodeVideo_Probe(i) ==
    /\ i \in 1..Len(runs)
    /\ runs[i].pc = "probe"
    /\ LET r == Did(runs[i], "probe")
       IN  \E o \in CtxOutcomes(r) :
             IF o = "ok"
             THEN /\ media' = media
                  /\ \E run \in ProbeRuns :
                       SetRun(i, [r EXCEPT !.pc = "probeWait", !.proc = "ffprobe",
                                           !.probeRun = run])
             ELSE WriteDuration(i, Seen(r, IF o = "cancelled" THEN o ELSE "ok"),
                                getVideoDuration(o, <<"text">>))
    /\ resp' = NoResp
    /\ UNCHANGED <<nextID, jobs, objects, published>>
    /\ UNCHANGED <<shareVars, authVars>>

\* getVideoDuration, the Wait of cmd.Output() and the parse of what it
\* returned, then the write of the duration
transcodeVideo_ProbeWait(i) ==
    /\ i \in 1..Len(runs)
    /\ runs[i].pc = "probeWait"
    /\ LET r == [runs[i] EXCEPT !.proc = "none"]
           run == runs[i].probeRun
           killed == [Seen(r, "cancelled") EXCEPT
                        !.probeRun = <<"cancelled", run[2]>>]
       IN  \/ WriteDuration(i, r, getVideoDuration(run[1], run[2]))
           \/ WriteDuration(i, killed, getVideoDuration("cancelled", run[2]))
    /\ resp' = NoResp
    /\ UNCHANGED <<nextID, jobs, objects, published>>
    /\ UNCHANGED <<shareVars, authVars>>

\* A transcodeVideo that hands back the key without having put the object.
transcodeVideo_Upload_Skipped(i) ==
    /\ i \in 1..Len(runs)
    /\ runs[i].pc = "upload"
    /\ SetRun(i, [runs[i] EXCEPT !.pc = "updateSize", !.probeRun = <<>>])
    /\ resp' = NoResp
    /\ UNCHANGED <<media, nextID, jobs, objects, published>>
    /\ UNCHANGED <<shareVars, authVars>>

\* os.Open, Stat and client.PutObject of the output file
transcodeVideo_Upload(i) ==
    /\ i \in 1..Len(runs)
    /\ runs[i].pc = "upload"
    /\ LET r == runs[i]
       IN  \/ /\ objects' = objects
              /\ SetRun(i, TranscodeFailed(r,
                    Wrap("failed to open output file", ErrLocal)))
           \/ \E o \in CtxOutcomes(r) :
                IF o = "ok"
                THEN /\ objects' = objects \cup {ProcessedKey(r.media_id)}
                     /\ SetRun(i, [Did(r, "upload") EXCEPT !.pc = "updateSize",
                                                           !.probeRun = <<>>,
                                                           !.uploaded = TRUE])
                ELSE /\ objects' = objects
                     /\ SetRun(i, TranscodeFailed(Seen(Did(r, "upload"), o),
                           Wrap("failed to upload processed file",
                                CtxErr(o, ErrTransport))))
    /\ resp' = NoResp
    /\ UNCHANGED <<media, nextID, jobs, published>>
    /\ UNCHANGED <<shareVars, authVars>>

\* UPDATE media SET size_bytes = $2 WHERE id = $1 (its error dropped), and
\* transcodeVideo returns processedKey
transcodeVideo_UpdateSize(i) ==
    /\ i \in 1..Len(runs)
    /\ runs[i].pc = "updateSize"
    /\ LET r == runs[i]
       IN  \E o \in CtxOutcomes(r), size \in OutputSizes :
             /\ media' = IF o = "ok" /\ HasRow(r.media_id)
                         THEN [media EXCEPT ![r.media_id].size_bytes = Some(size)]
                         ELSE media
             /\ SetRun(i, [Seen(r, o) EXCEPT
                             !.pc = "setReady", !.tempDir = FALSE,
                             !.processedKey = ProcessedKey(r.media_id)])
    /\ resp' = NoResp
    /\ UNCHANGED <<nextID, jobs, objects, published>>
    /\ UNCHANGED <<shareVars, authVars>>

\* UPDATE media SET status = 'failed' WHERE id = $1 (its error dropped)
processMedia_MarkFailed(i) ==
    /\ i \in 1..Len(runs)
    /\ runs[i].pc = "markFailed"
    /\ LET r == Did(runs[i], "setFailed")
       IN  \E o \in CtxOutcomes(r) :
             /\ media' = IF o = "ok" THEN SetStatus(r.media_id, "failed")
                         ELSE media
             /\ IF r.jobID # 0
                THEN SetRun(i, [Seen(r, o) EXCEPT !.pc = "jobFailed"])
                ELSE SetRun(i, Returned(r, r.err))
    /\ resp' = NoResp
    /\ UNCHANGED <<nextID, jobs, objects, published>>
    /\ UNCHANGED <<shareVars, authVars>>

\* An update WHERE media_id = $1: every job row of the item is marked.
processMedia_JobFailed_ByMedia(i) ==
    /\ i \in 1..Len(runs)
    /\ runs[i].pc = "jobFailed"
    /\ LET r == runs[i]
       IN  /\ jobs' = [k \in 1..Len(jobs) |->
                         IF jobs[k].media_id = r.media_id
                         THEN [jobs[k] EXCEPT !.status = "failed",
                                              !.error_message = Some(r.err[1]),
                                              !.completed_at = Some(NOW)]
                         ELSE jobs[k]]
           /\ SetRun(i, Returned(r, r.err))
    /\ resp' = NoResp
    /\ UNCHANGED <<media, nextID, objects, published>>
    /\ UNCHANGED <<shareVars, authVars>>

\* UPDATE processing_jobs SET status = 'failed', error_message = $2,
\* completed_at = NOW() WHERE id = $1 (its error dropped); return err
processMedia_JobFailed(i) ==
    /\ i \in 1..Len(runs)
    /\ runs[i].pc = "jobFailed"
    /\ LET r == runs[i]
       IN  /\ \E o \in CtxOutcomes(r) :
                jobs' = IF o = "ok"
                        THEN [jobs EXCEPT ![r.jobID] =
                                [@ EXCEPT !.status = "failed",
                                          !.error_message = Some(r.err[1]),
                                          !.completed_at = Some(NOW)]]
                        ELSE jobs
           /\ SetRun(i, Returned(r, r.err))
    /\ resp' = NoResp
    /\ UNCHANGED <<media, nextID, objects, published>>
    /\ UNCHANGED <<shareVars, authVars>>

\* An update that leaves the column alone when there is no processed key.
ReadyRow_KeepKey(row, processedKey) ==
    [row EXCEPT !.status = "ready",
                !.s3_key_processed = IF processedKey = <<>> THEN @
                                     ELSE Some(processedKey)]

\* SET status = 'ready', s3_key_processed = $2
ReadyRow(row, processedKey) ==
    [row EXCEPT !.status = "ready", !.s3_key_processed = Some(processedKey)]

\* UPDATE media SET status = 'ready', s3_key_processed = $2 WHERE id = $1
processMedia_SetReady(i) ==
    /\ i \in 1..Len(runs)
    /\ runs[i].pc = "setReady"
    /\ LET r == Did(runs[i], "setReady")
       IN  \E o \in CtxOutcomes(r) :
             IF o = "ok"
             THEN /\ media' = IF HasRow(r.media_id)
                              THEN [media EXCEPT ![r.media_id] =
                                      ReadyRow(@, r.processedKey)]
                              ELSE media
                  /\ IF r.jobID # 0
                     THEN SetRun(i, [r EXCEPT !.pc = "jobCompleted"])
                     ELSE SetRun(i, Returned(r, NULL))
             ELSE /\ media' = media
                  /\ SetRun(i, Returned(r, Some(CtxErr(o, ErrDB))))
    /\ resp' = NoResp
    /\ UNCHANGED <<nextID, jobs, objects, published>>
    /\ UNCHANGED <<shareVars, authVars>>

\* An update that sets the status and forgets the time.
processMedia_JobCompleted_NoTime(i) ==
    /\ i \in 1..Len(runs)
    /\ runs[i].pc = "jobCompleted"
    /\ LET r == runs[i]
       IN  /\ \E o \in CtxOutcomes(r) :
                jobs' = IF o = "ok"
                        THEN [jobs EXCEPT ![r.jobID].status = "completed"]
                        ELSE jobs
           /\ SetRun(i, Returned(r, NULL))
    /\ resp' = NoResp
    /\ UNCHANGED <<media, nextID, objects, published>>
    /\ UNCHANGED <<shareVars, authVars>>

\* UPDATE processing_jobs SET status = 'completed', completed_at = NOW()
\* WHERE id = $1 (its error dropped); return nil
processMedia_JobCompleted(i) ==
    /\ i \in 1..Len(runs)
    /\ runs[i].pc = "jobCompleted"
    /\ LET r == runs[i]
       IN  /\ \E o \in CtxOutcomes(r) :
                jobs' = IF o = "ok"
                        THEN [jobs EXCEPT ![r.jobID] =
                                [@ EXCEPT !.status = "completed",
                                          !.completed_at = Some(NOW)]]
                        ELSE jobs
           /\ SetRun(i, Returned(r, NULL))
    /\ resp' = NoResp
    /\ UNCHANGED <<media, nextID, objects, published>>
    /\ UNCHANGED <<shareVars, authVars>>

(* ----------------------- GetJobStatus (processing.go) ------------------ *)
\* ORDER BY created_at ASC: the oldest row instead of the newest.
LatestJob_Oldest(mediaID) ==
    LET own == {k \in 1..Len(jobs) : jobs[k].media_id = mediaID}
    IN  IF own = {} THEN 0 ELSE CHOOSE k \in own : \A j \in own : k <= j

\* SELECT ... FROM processing_jobs WHERE media_id = $1
\* ORDER BY created_at DESC LIMIT 1: the index of that row, 0 when none
LatestJob(mediaID) ==
    LET own == {k \in 1..Len(jobs) : jobs[k].media_id = mediaID}
    IN  IF own = {} THEN 0 ELSE CHOOSE k \in own : \A j \in own : j <= k

GetJobStatusResult(mediaID) ==
    LET k == LatestJob(mediaID)
    IN  IF k # 0
        THEN [kind |-> "ok", media_id |-> jobs[k].media_id,
              status |-> jobs[k].status,
              error_message |-> jobs[k].error_message]
        ELSE IF HasRow(mediaID)
        THEN [kind |-> "ok", media_id |-> mediaID,
              status |-> media[mediaID].status, error_message |-> NULL]
        ELSE [kind |-> "error", media_id |-> mediaID,
              status |-> "media not found", error_message |-> NULL]

\* A query that files a job row for a media id that has none.
GetJobStatus_FilesJob(mediaID) ==
    /\ resp' = GetJobStatusResult(mediaID)
    /\ jobs' = IF LatestJob(mediaID) = 0
               THEN Append(jobs, [media_id |-> mediaID, status |-> "pending",
                                  error_message |-> NULL, started_at |-> NULL,
                                  completed_at |-> NULL])
               ELSE jobs
    /\ UNCHANGED <<media, nextID, objects, published, runs>>
    /\ UNCHANGED <<shareVars, authVars>>

GetJobStatus(mediaID) ==
    /\ resp' = GetJobStatusResult(mediaID)
    /\ UNCHANGED <<media, nextID, jobs, objects, published, runs>>
    /\ UNCHANGED <<shareVars, authVars>>

(* ------------------ collection service (part_000) ---------------------- *)
\* userID of a request without authentication: the zero value.
Anonymous == "0"

\* The ids and share tokens gen_random_uuid() and uuid.New() produce, in
\* the order they produce them.
CollectionIDs == <<"c1", "c2", "c3">>

UUIDPool == <<"t1", "t2", "t3", "t4", "t5">>

\* req.Title of CreateCollection
Titles == {"", "holiday"}

\* req.Token of GetCollection: absent, any token generated so far, or a guess
TokenInputs == {""} \cup {UUIDPool[k] : k \in 1..MaxUUIDs} \cup {"guess"}

HasCollection(id) == id \in DOMAIN collections

\* INSERT INTO collections (owner_id, title, description, created_at) ...
\* RETURNING ...: is_public and share_token take their defaults
CreateCollection(user, title) ==
    /\ Cardinality(DOMAIN collections) < MaxCollections
    /\ nextUUID < MaxUUIDs
    /\ IF title = ""
       THEN /\ resp' = [kind |-> "collection error", code |-> "invalid_argument"]
            /\ UNCHANGED <<collections, nextUUID>>
       ELSE LET id == CollectionIDs[Cardinality(DOMAIN collections) + 1]
                row == [owner_id |-> user, title |-> title,
                        is_public |-> FALSE,
                        share_token |-> UUIDPool[nextUUID + 1]]
            IN  \/ /\ collections' = (id :> row) @@ collections
                   /\ nextUUID' = nextUUID + 1
                   /\ resp' = [kind |-> "created", id |-> id,
                               is_public |-> row.is_public,
                               share_token |-> row.share_token]
                \/ /\ resp' = [kind |-> "collection error", code |-> "internal"]
                   /\ UNCHANGED <<collections, nextUUID>>
    /\ UNCHANGED <<collection_items, updates, retired>>
    /\ UNCHANGED <<media, nextID, jobs, objects, published, runs, authVars>>

\* AddMedia: the owner checks of the collection and of the media item, then
\* INSERT INTO collection_items ... ON CONFLICT DO NOTHING
AddMedia(user, id, mediaID) ==
    /\ IF ~HasCollection(id) \/ (HasCollection(id) /\ ~HasRow(mediaID)
                                 /\ collections[id].owner_id = user)
       THEN /\ resp' = [kind |-> "collection error", code |-> "not_found"]
            /\ collection_items' = collection_items
       ELSE IF collections[id].owner_id # user \/ media[mediaID].owner_id # user
       THEN /\ resp' = [kind |-> "collection error",
                        code |-> "permission_denied"]
            /\ collection_items' = collection_items
       ELSE \/ /\ collection_items' = collection_items \cup {<<id, mediaID>>}
               /\ resp' = [kind |-> "added"]
            \/ /\ collection_items' = collection_items
               /\ resp' = [kind |-> "collection error", code |-> "internal"]
    /\ UNCHANGED <<collections, nextUUID, updates, retired>>
    /\ UNCHANGED <<media, nextID, jobs, objects, published, runs, authVars>>

\* UpdateShare, its SELECT and the owner check: the call holds what it read
UpdateShare_Select(k, user, id, isPublic, regenerate) ==
    /\ updates[k].pc = "idle"
    /\ \A j \in 1..(k - 1) : updates[j].pc # "idle"    \* the first free slot
    /\ IF ~HasCollection(id)
       THEN /\ resp' = [kind |-> "collection error", code |-> "not_found"]
            /\ updates' = updates
       ELSE IF collections[id].owner_id # user
       THEN /\ resp' = [kind |-> "collection error",
                        code |-> "permission_denied"]
            /\ updates' = updates
       ELSE /\ resp' = NoResp
            /\ updates' = [updates EXCEPT ![k] =
                 [pc |-> "update", user |-> user, id |-> id,
                  is_public |-> isPublic, regenerate |-> regenerate,
                  currentIsPublic |-> collections[id].is_public,
                  currentToken |-> collections[id].share_token]]
    /\ UNCHANGED <<collections, collection_items, nextUUID, retired>>
    /\ UNCHANGED <<media, nextID, jobs, objects, published, runs, authVars>>

\* UPDATE collections SET is_public = $2, share_token = $3 WHERE id = $1,
\* with newIsPublic and newToken computed from what the SELECT returned
UpdateShare_Written(row, u, newToken) ==
    [row EXCEPT !.is_public = IF u.is_public # <<>> THEN u.is_public[1]
                              ELSE u.currentIsPublic,
                !.share_token = IF u.regenerate THEN newToken
                                ELSE u.currentToken]

\* UpdateShare from "Update settings" to its return
UpdateShare_Update(k) ==
    /\ updates[k].pc = "update"
    /\ LET u == updates[k]
           newToken == UUIDPool[nextUUID + 1]      \* uuid.New().String()
           written == UpdateShare_Written(collections[u.id], u, newToken)
       IN  /\ u.regenerate => nextUUID < MaxUUIDs
           /\ nextUUID' = IF u.regenerate THEN nextUUID + 1 ELSE nextUUID
           /\ \/ /\ collections' = [collections EXCEPT ![u.id] = written]
                 /\ retired' = IF u.regenerate
                               THEN retired \cup {collections[u.id].share_token}
                               ELSE retired
                 /\ resp' = [kind |-> "share", id |-> u.id,
                             is_public |-> written.is_public,
                             share_token |-> written.share_token]
              \/ /\ UNCHANGED <<collections, retired>>
                 /\ resp' = [kind |-> "collection error", code |-> "internal"]
    /\ updates' = [updates EXCEPT ![k] = NoUpdate]
    /\ UNCHANGED collection_items
    /\ UNCHANGED <<media, nextID, jobs, objects, published, runs, authVars>>

\* A rule that lets the empty token match.
HasAccess_EmptyTokenMatches(row, user, token) ==
    \/ user = row.owner_id
    \/ row.is_public
    \/ token = row.share_token \/ token = ""

\* hasAccess := resp.IsOwner || resp.IsPublic ||
\*              (req.Token != "" && req.Token == shareToken)
HasAccess(row, user, token) ==
    \/ user = row.owner_id
    \/ row.is_public
    \/ (token # "" /\ token = row.share_token)

\* The items of a collection as GetCollection returns them: the media rows
\* that can be read, each with a stream URL if it is ready and one was signed.
CollectionItems(id, signed) ==
    { [id |-> m, status |-> media[m].status,
       stream_url |-> IF media[m].status = "ready" /\ signed
                      THEN Some(StreamKey(media[m])) ELSE NULL] :
      m \in {x \in DOMAIN media : <<id, x>> \in collection_items} }

\* GetCollection: the SELECT of the row, the access rule, the query for the
\* items and the media row of each.  request is what the caller sent.
GetCollection(user, id, token) ==
    /\ LET request == [user |-> user, id |-> id, token |-> token]
           error(code) == [kind |-> "collection error", code |-> code,
                           request |-> request]
       IN  IF ~HasCollection(id)
           THEN resp' = error("not_found")
           ELSE IF ~HasAccess(collections[id], user, token)
           THEN resp' = error("permission_denied")
           ELSE \/ \E signed \in BOOLEAN :
                     resp' = [kind |-> "collection", request |-> request,
                              is_owner |-> (user = collections[id].owner_id),
                              is_public |-> collections[id].is_public,
                              items |-> CollectionItems(id, signed)]
                \/ resp' = error("internal")           \* the items query failed
    /\ UNCHANGED <<shareVars, authVars>>
    /\ UNCHANGED <<media, nextID, jobs, objects, published, runs>>

(* ------------------------- auth service (auth.go) ---------------------- *)
\* ExpiresAt: time.Now().Add(7 * 24 * time.Hour), in units of that lifetime
SessionTTL == 1

\* The tokens generateSessionToken() produces, in the order it produces them.
SessionTokens == <<"s1", "s2", "s3", "s4">>

\* The Authorization header of a request, in parts: absent, the bare token,
\* or the token behind "Bearer ".
Headers ==
    {<<>>} \cup {<<t>> : t \in {SessionTokens[k] : k \in 1..MaxTokens}}
           \cup {<<"Bearer ", t>> : t \in {SessionTokens[k] : k \in 1..MaxTokens}}

\* if len(token) > 7 && token[:7] == "Bearer " { token = token[7:] }
BearerToken(header) ==
    IF header = <<>> THEN ""
    ELSE IF Len(header) > 1 /\ header[1] = "Bearer " THEN header[2]
    ELSE header[1]

\* The endpoints behind AuthHandler that the model distinguishes.
Endpoints == {"Logout", "Me"}

\* The position of handler h is before an access to the map sessions.
Pending(h) == handlers[h].pc \in {"insert", "lookup", "deleteExpired",
                                 "range", "next"}

\* The entries a Logout iteration has still to produce.
Live(h) == handlers[h].todo \cap DOMAIN sessions

\* That access is a write: an insert, or a delete that will happen.
Writes(h) ==
    \/ handlers[h].pc \in {"insert", "deleteExpired"}
    \/ /\ handlers[h].pc = "next"
       /\ \E t \in Live(h) : sessions[t].UserID = handlers[h].user

\* Handler h is about to write the map while another goroutine is about to
\* read or write it: nothing orders the two accesses.
Racing(h) ==
    /\ Writes(h)
    /\ \E g \in 1..MaxHandlers : g # h /\ Pending(g)

FreeSlot(h) ==
    /\ handlers[h].pc = "idle"
    /\ \A j \in 1..(h - 1) : handlers[j].pc # "idle"

SetHandler(h, r) == handlers' = [handlers EXCEPT ![h] = r]

\* Callback up to "Create session": the code is exchanged, the Discord user
\* fetched and upserted (a failure of any returns an error and changes
\* nothing); user is the id of the row upserted
Callback_Begin(h, user) ==
    /\ FreeSlot(h)
    /\ nextToken < MaxTokens
    /\ SetHandler(h, [NoHandler EXCEPT !.pc = "insert", !.op = "Callback",
                                       !.user = user])
    /\ UNCHANGED <<sessions, nextToken, issued, now, revoked>>
    /\ UNCHANGED <<media, nextID, jobs, objects, published, runs, resp,
                   shareVars>>

\* sessions[sessionToken] = session, and the token is returned; stored says
\* whether the write took effect
Callback_Store(h, stored) ==
    LET token == SessionTokens[nextToken + 1]
        session == [UserID |-> handlers[h].user,
                    ExpiresAt |-> now + SessionTTL]
    IN  /\ handlers[h].pc = "insert"
        /\ nextToken < MaxTokens
        /\ nextToken' = nextToken + 1
        /\ sessions' = IF stored THEN (token :> session) @@ sessions
                       ELSE sessions
        /\ issued' = (token :> session) @@ issued
        /\ SetHandler(h, NoHandler)
        /\ UNCHANGED <<now, revoked>>

Callback_Insert(h) ==
    /\ Callback_Store(h, TRUE)
    /\ UNCHANGED <<media, nextID, jobs, objects, published, runs, resp,
                   shareVars>>

\* AuthHandler, called before the endpoint op: the header is read; an empty
\* token is refused at once (nothing changes)
AuthHandler_Begin(h, header, op) ==
    /\ FreeSlot(h)
    /\ BearerToken(header) # ""
    /\ SetHandler(h, [NoHandler EXCEPT !.pc = "lookup", !.op = op,
                                       !.token = BearerToken(header)])
    /\ UNCHANGED <<sessions, nextToken, issued, now, revoked>>
    /\ UNCHANGED <<media, nextID, jobs, objects, published, runs, resp,
                   shareVars>>

\* session, exists := sessions[token]; the expiry check; the SELECT of the
\* user.  When the token is accepted the endpoint is entered: Logout
\* begins, and before holds the tokens issued to its user so far.
AuthHandler_Lookup(h) ==
    /\ handlers[h].pc = "lookup"
    /\ LET token == handlers[h].token
       IN  IF token \notin DOMAIN sessions
           THEN SetHandler(h, NoHandler)                   \* invalid session
           ELSE IF now > sessions[token].ExpiresAt
           THEN SetHandler(h, [handlers[h] EXCEPT !.pc = "deleteExpired"])
           ELSE \/ SetHandler(h, NoHandler)                \* user not found
                \/ LET user == sessions[token].UserID
                   IN  SetHandler(h,
                         IF handlers[h].op = "Logout"
                         THEN [handlers[h] EXCEPT
                                 !.pc = "range", !.user = user,
                                 !.before = {t \in DOMAIN issued :
                                               issued[t].UserID = user}]
                         ELSE NoHandler)
    /\ UNCHANGED <<sessions, nextToken, issued, now, revoked>>
    /\ UNCHANGED <<media, nextID, jobs, objects, published, runs, resp,
                   shareVars>>

Without(table, token) == [t \in DOMAIN table \ {token} |-> table[t]]

\* delete(sessions, token) of an expired session, and the refusal
AuthHandler_Expire(h, stored) ==
    /\ handlers[h].pc = "deleteExpired"
    /\ sessions' = IF stored THEN Without(sessions, handlers[h].token)
                   ELSE sessions
    /\ SetHandler(h, NoHandler)
    /\ UNCHANGED <<nextToken, issued, now, revoked>>

AuthHandler_DeleteExpired(h) ==
    /\ AuthHandler_Expire(h, TRUE)
    /\ UNCHANGED <<media, nextID, jobs, objects, published, runs, resp,
                   shareVars>>

\* Logout: for token, session := range sessions, the start of the iteration
Logout_Range(h) ==
    /\ handlers[h].pc = "range"
    /\ SetHandler(h, [handlers[h] EXCEPT !.pc = "next",
                                         !.todo = DOMAIN sessions])
    /\ UNCHANGED <<sessions, nextToken, issued, now, revoked>>
    /\ UNCHANGED <<media, nextID, jobs, objects, published, runs, resp,
                   shareVars>>

\* One iteration of the loop: the next entry (in no fixed order; an entry
\* removed before it is reached is not produced) and the delete if it is a
\* session of the user; or the end of the loop and the return.
Logout_Visit(h, stored) ==
    /\ handlers[h].pc = "next"
    /\ IF Live(h) = {}
       THEN /\ sessions' = sessions
            /\ revoked' = revoked \cup handlers[h].before
            /\ SetHandler(h, NoHandler)
       ELSE /\ \E t \in Live(h) :
                 /\ sessions' = IF sessions[t].UserID = handlers[h].user /\ stored
                                THEN Without(sessions, t)
                                ELSE sessions
                 /\ SetHandler(h, [handlers[h] EXCEPT !.todo = Live(h) \ {t}])
            /\ revoked' = revoked
    /\ UNCHANGED <<nextToken, issued, now>>

Logout_Next(h) ==
    /\ Logout_Visit(h, TRUE)
    /\ UNCHANGED <<media, nextID, jobs, objects, published, runs, resp,
                   shareVars>>

\* Time passes.
Tick ==
    /\ now < MaxTime
    /\ now' = now + 1
    /\ UNCHANGED <<sessions, nextToken, issued, handlers, revoked>>
    /\ UNCHANGED <<media, nextID, jobs, objects, published, runs, resp,
                   shareVars>>

\* A write to the map that races with another access.  What a Go build does
\* with it is not defined; of the outcomes it can produce the model takes,
\* besides the write going well (the handler's own action), the write being
\* lost and the runtime ending the process ("fatal error: concurrent map
\* writes"), which loses the table and every request in flight.
MapRace(h) ==
    /\ Racing(h)
    /\ \/ Callback_Store(h, FALSE)
       \/ AuthHandler_Expire(h, FALSE)
       \/ Logout_Visit(h, FALSE)
       \/ /\ sessions' = <<>>
          /\ handlers' = [g \in 1..MaxHandlers |-> NoHandler]
          /\ UNCHANGED <<nextToken, issued, now, revoked>>
    /\ UNCHANGED <<media, nextID, jobs, objects, published, runs, resp,
                   shareVars>>

(* ------------------------------ system --------------------------------- *)
\* The collection ids a request may name.
ShareRequestIDs == {CollectionIDs[k] : k \in 1..MaxCollections}

\* The ids a request may name: the ones uuid.New() can have produced.
RequestIDs == {IDPool[k] : k \in 1..MaxMedia}

\* The events ConfirmUpload can publish.
Events ==
    {[media_id |-> id, s3_key |-> OriginalKey(u, id, f), owner_id |-> u] :
        id \in RequestIDs, u \in Users, f \in Filenames}

Next ==
    \/ \E u \in Users, f \in Filenames : SignUpload(u, f)
    \/ \E id \in RequestIDs : ClientUpload(id)
    \/ \E u \in Users, id \in RequestIDs, size \in SizeInputs :
          ConfirmUpload(u, id, size)
    \/ \E u \in Users, id \in RequestIDs : DeleteMedia(u, id)
    \/ \E msg \in Events : processMedia_InsertJob(msg)
    \/ \E i \in 1..MaxRuns : processMedia_SetProcessing(i)
    \/ \E i \in 1..MaxRuns : transcodeVideo_Begin(i)
    \/ \E i \in 1..MaxRuns : transcodeVideo_Download(i)
    \/ \E i \in 1..MaxRuns : transcodeVideo_Encode(i)
    \/ \E i \in 1..MaxRuns : transcodeVideo_EncodeWait(i)
    \/ \E i \in 1..MaxRuns : transcodeVideo_Probe(i)
    \/ \E i \in 1..MaxRuns : transcodeVideo_ProbeWait(i)
    \/ \E i \in 1..MaxRuns : transcodeVideo_Upload(i)
    \/ \E i \in 1..MaxRuns : transcodeVideo_UpdateSize(i)
    \/ \E i \in 1..MaxRuns : processMedia_MarkFailed(i)
    \/ \E i \in 1..MaxRuns : processMedia_JobFailed(i)
    \/ \E i \in 1..MaxRuns : processMedia_SetReady(i)
    \/ \E i \in 1..MaxRuns : processMedia_JobCompleted(i)
    \/ \E id \in RequestIDs : GetJobStatus(id)

Spec == Init /\ [][Next]_vars

\* The pipeline together with the owner's and a stranger's GetMedia requests.
GetMediaNext ==
    \/ Next
    \/ \E u \in Requesters, id \in RequestIDs : GetMedia(u, id)

GetMediaSpec == Init /\ [][GetMediaNext]_vars

\* The collection service, with the uploads that make the media rows it
\* refers to.
ShareNext ==
    \/ \E u \in Users : SignUpload(u, <<"a", ".", "M", "O", "V">>)
    \/ \E u \in Users, title \in Titles : CreateCollection(u, title)
    \/ \E u \in Requesters, id \in ShareRequestIDs, m \in RequestIDs :
          AddMedia(u, id, m)
    \/ \E k \in 1..MaxUpdates, u \in Requesters, id \in ShareRequestIDs,
          isPublic \in {<<>>, <<TRUE>>, <<FALSE>>}, regenerate \in BOOLEAN :
          UpdateShare_Select(k, u, id, isPublic, regenerate)
    \/ \E k \in 1..MaxUpdates : UpdateShare_Update(k)
    \/ \E u \in Requesters \cup {Anonymous}, id \in ShareRequestIDs,
          token \in TokenInputs : GetCollection(u, id, token)

ShareSpec == Init /\ [][ShareNext]_vars

\* The auth service: the goroutines of concurrent requests.
AuthNext ==
    \/ \E h \in 1..MaxHandlers, u \in Requesters : Callback_Begin(h, u)
    \/ \E h \in 1..MaxHandlers : Callback_Insert(h)
    \/ \E h \in 1..MaxHandlers, header \in Headers, op \in Endpoints :
          AuthHandler_Begin(h, header, op)
    \/ \E h \in 1..MaxHandlers : AuthHandler_Lookup(h)
    \/ \E h \in 1..MaxHandlers : AuthHandler_DeleteExpired(h)
    \/ \E h \in 1..MaxHandlers : Logout_Range(h)
    \/ \E h \in 1..MaxHandlers : Logout_Next(h)
    \/ \E h \in 1..MaxHandlers : MapRace(h)
    \/ Tick

AuthSpec == Init /\ [][AuthNext]_vars

(* ============================ the claims =============================== *)
StatusIn(table, id) == IF id \in DOMAIN table THEN table[id].status ELSE "absent"

\* The processed storage key of a row is set: neither NULL nor ''.
KeySet(row) == row.s3_key_processed # NULL /\ row.s3_key_processed # Some(<<>>)

\* Run i takes a step.
Steps(i) == i \in 1..Len(runs) /\ runs'[i] # runs[i]

\* Run i returns in this step.
Returns(i) == Steps(i) /\ runs'[i].pc = "done"

\* C1: once a run for a media id has completed and the item's status is
\* ready, a run started by a later delivery of the event changes the status
\* in none of its steps and uploads no artifact object.
C1_RedeliveryIdempotent ==
    [][\A i \in 1..Len(runs) :
          (runs[i].prior = "ready" /\ Steps(i))
          => /\ StatusIn(media', runs[i].media_id) = StatusIn(media, runs[i].media_id)
             /\ ~runs'[i].uploaded]_vars

\* C2: a handler that starts while the item's status is processing or ready
\* fails its claim: it returns nil at once and creates no job row.
C2_ClaimGuard ==
    [][(/\ Len(runs') = Len(runs) + 1
        /\ StatusOf(runs'[Len(runs')].media_id) \in {"processing", "ready"})
       => /\ jobs' = jobs
          /\ runs'[Len(runs')].pc = "done"
          /\ runs'[Len(runs')].ret = "nil"]_vars

\* C3: no step changes an item's status from ready to another value, nor
\* from processing, ready or failed back to uploading or queued.
C3_StatusForward ==
    [][\A id \in DOMAIN media \cap DOMAIN media' :
          /\ media[id].status = "ready" => media'[id].status = "ready"
          /\ media[id].status \in {"processing", "ready", "failed"}
             => media'[id].status \notin {"uploading", "queued"}]_vars

\* C4, the part the claim singles out: the processed storage key is set only
\* on a ready item, so no item has a processed key together with the status
\* processing or failed.
C4_NoKeyWhileProcessing ==
    \A id \in DOMAIN media :
        KeySet(media[id]) => media[id].status \notin {"processing", "failed"}

\* C5: a run for a key with a video extension whose download, encode, upload
\* and final status write succeed writes status ready and the processed key
\* processed/<media_id>.mp4, which is not empty and is not the original key,
\* and then returns nil.
C5_VideoSuccess ==
    [][\A i \in 1..Len(runs) :
          LET r == runs[i]
              id == r.media_id
              key == <<"processed", "/", id, ".", "m", "p", "4">>
          IN  /\ (/\ r.pc = "setReady" /\ isVideoFile(r.s3_key)
                  /\ Steps(i) /\ runs'[i].ret # "error")
                 => /\ r.uploaded
                    /\ runs'[i].pc = "done" => runs'[i].ret = "nil"
                    /\ HasRow(id)
                       => /\ media'[id].status = "ready"
                          /\ media'[id].s3_key_processed = Some(key)
                          /\ key # <<>>
                          /\ key # media'[id].s3_key_original
              /\ (r.pc = "jobCompleted" /\ Steps(i))
                 => runs'[i].pc = "done" /\ runs'[i].ret = "nil"]_vars

C5_Witness ==
    \E i \in 1..Len(runs) :
        /\ runs[i].pc = "jobCompleted"
        /\ isVideoFile(runs[i].s3_key)
        /\ HasRow(runs[i].media_id)
        /\ media[runs[i].media_id].status = "ready"
        /\ media[runs[i].media_id].s3_key_processed
              = Some(ProcessedKey(runs[i].media_id))

\* The final status write of run i succeeds in this step.
SetsReady(i) ==
    /\ Steps(i)
    /\ runs[i].pc = "setReady"
    /\ runs'[i].ret # "error"

\* C6, as stated: a successful run for a key without a video extension sets
\* status ready and leaves the processed-key column as it was.
C6_KeyColumnUntouched ==
    [][\A i \in 1..Len(runs) :
          (SetsReady(i) /\ ~isVideoFile(runs[i].s3_key) /\ HasRow(runs[i].media_id))
          => /\ media'[runs[i].media_id].status = "ready"
             /\ media'[runs[i].media_id].s3_key_processed
                   = media[runs[i].media_id].s3_key_processed]_vars

\* C6, amended: a successful run for a key without a video extension sets
\* status ready and writes the empty string to the processed-key column,
\* which held no key before (NULL or ''): the key stays empty, the column is
\* written.
C6_KeyStaysEmpty ==
    [][\A i \in 1..Len(runs) :
          (SetsReady(i) /\ ~isVideoFile(runs[i].s3_key) /\ HasRow(runs[i].media_id))
          => /\ media'[runs[i].media_id].status = "ready"
             /\ ~KeySet(media[runs[i].media_id])
             /\ media'[runs[i].media_id].s3_key_processed = Some(<<>>)
             /\ ProcessedKey(runs[i].media_id) \notin objects']_vars

C6_Witness ==
    \E i \in 1..Len(runs) :
        /\ runs[i].pc \in {"jobCompleted", "done"}
        /\ runs[i].ret # "error"
        /\ ~isVideoFile(runs[i].s3_key)
        /\ HasRow(runs[i].media_id)
        /\ media[runs[i].media_id].status = "ready"
        /\ media[runs[i].media_id].s3_key_processed = Some(<<>>)

\* The error transcodeVideo returns when the encoder exits non-zero.
EncoderFailure == Some(Wrap("ffmpeg transcoding failed", ErrExit))

\* C7: when a run whose encoder exited non-zero returns, it returns an
\* error, the item's status is failed, and the most recently created job of
\* the media id (if there is one) is failed with a non-empty error message
\* and completed_at set.
C7_EncoderFailureRecorded ==
    [][\A i \in 1..Len(runs) :
          (Returns(i) /\ runs[i].err = EncoderFailure /\ HasRow(runs[i].media_id))
          => /\ runs'[i].ret = "error"
             /\ media'[runs[i].media_id].status = "failed"
             /\ \A k \in 1..Len(jobs') :
                   (/\ jobs'[k].media_id = runs[i].media_id
                    /\ \A j \in (k + 1)..Len(jobs') :
                          jobs'[j].media_id # runs[i].media_id)
                   => /\ jobs'[k].status = "failed"
                      /\ jobs'[k].error_message # NULL
                      /\ jobs'[k].error_message # Some(<<>>)
                      /\ jobs'[k].completed_at # NULL]_vars

\* C8: the job row a handler invocation inserted is completed or failed once
\* that invocation has returned.
C8_JobClosedOnReturn ==
    \A i \in 1..Len(runs) :
        (runs[i].pc = "done" /\ runs[i].jobID # 0)
        => jobs[runs[i].jobID].status \in {"completed", "failed"}

\* C9: once two invocations for one media id have both returned, with their
\* job rows closed and the item's status ready or failed, the status agrees
\* with the most recently created job: ready with completed, failed with
\* failed.
C9_StatusAgreesWithLatestJob ==
    \A i, j \in 1..Len(runs) :
        LET id == runs[i].media_id
        IN  (/\ i < j
             /\ runs[j].media_id = id
             /\ runs[i].pc = "done" /\ runs[j].pc = "done"
             /\ runs[i].jobID # 0 /\ runs[j].jobID # 0
             /\ jobs[runs[i].jobID].status \in {"completed", "failed"}
             /\ jobs[runs[j].jobID].status \in {"completed", "failed"}
             /\ StatusOf(id) \in Terminal)
            => LET latest == jobs[LatestJob(id)].status
               IN  \/ StatusOf(id) = "ready" /\ latest = "completed"
                   \/ StatusOf(id) = "failed" /\ latest = "failed"

C11_QueryReadOnly ==
    [][resp' # NoResp
       => /\ jobs' = jobs
          /\ media' = media
          /\ objects' = objects
          /\ published' = published
          /\ runs' = runs]_vars

\* a query answered from the media row, with an object in the bucket
C11_Witness ==
    /\ resp.kind = "ok"
    /\ LatestJob(resp.media_id) = 0
    /\ HasRow(resp.media_id)
    /\ objects # {}

\* The calls of the transcode sequence.
TranscodeCalls == {"download", "encode", "probe", "upload"}

Called(r, ops) == \E k \in 1..Len(r.did) : r.did[k] \in ops

\* C12: the write of status processing either is applied, and the run goes
\* on to the transcode sequence, or fails, and then the run returns an error
\* in that step: it has made and makes no download, encoder, probe or upload
\* call, and the media store and the bucket are as they were.
C12_ProcessingWriteFatal ==
    [][\A i \in 1..Len(runs) :
          /\ (Steps(i) /\ runs[i].pc = "setProcessing")
             => \/ /\ runs'[i].pc = "begin"
                   /\ HasRow(runs[i].media_id)
                      => media'[runs[i].media_id].status = "processing"
                \/ /\ runs'[i].pc = "done"
                   /\ runs'[i].ret = "error"
                   /\ ~Called(runs[i], TranscodeCalls)
                   /\ ~runs'[i].uploaded /\ ~runs'[i].tempDir
                   /\ media' = media
                   /\ objects' = objects
          /\ runs[i].pc = "done" => runs'[i] = runs[i]]_vars

\* a run has returned an error with the item still queued and its job row
\* still open: the status write failed
C12_Witness ==
    /\ Len(runs) = 1
    /\ runs[1].pc = "done" /\ runs[1].ret = "error"
    /\ ~runs[1].uploaded
    /\ runs[1].jobID # 0
    /\ jobs[runs[1].jobID].status = "processing"
    /\ StatusOf(runs[1].media_id) = "queued"
    /\ runs[1].s3_key \in objects

\* What the transport will see of run r once the job-row update that may
\* still be ahead of it is done: nil, error, or nothing yet.
Outcome(r) ==
    IF r.pc = "jobCompleted" \/ (r.pc = "done" /\ r.ret = "nil") THEN "nil"
    ELSE IF r.pc = "jobFailed" \/ (r.pc = "done" /\ r.ret = "error") THEN "error"
    ELSE "none"

\* C13: a handler whose job insert fails goes on to the write of status
\* processing; a run without a job row changes the job store in none of its
\* steps; and the final status write and the value returned are the same
\* with and without a job row: the ready write either is applied and the
\* run returns nil, or fails and the run returns an error with the media
\* store unchanged, and the run of a failed transcode sequence returns an
\* error after its failed write.  With no job row the run returns in the
\* step of its final status write.
C13_InsertFailureTolerated ==
    [][/\ (Len(runs') = Len(runs) + 1 /\ jobs' = jobs)
          => /\ runs'[Len(runs')].pc = "setProcessing"
             /\ runs'[Len(runs')].jobID = 0
       /\ \A i \in 1..Len(runs) :
             LET r == runs[i]
                 id == r.media_id
             IN  /\ (Steps(i) /\ r.jobID = 0) => jobs' = jobs
                 /\ (Steps(i) /\ r.pc = "setReady")
                    => /\ \/ /\ Outcome(runs'[i]) = "nil"
                             /\ HasRow(id)
                                => media' = [media EXCEPT ![id] =
                                                ReadyRow(@, r.processedKey)]
                          \/ /\ Outcome(runs'[i]) = "error"
                             /\ media' = media
                       /\ r.jobID = 0 => runs'[i].pc = "done"
                 /\ (Steps(i) /\ r.pc = "markFailed")
                    => /\ Outcome(runs'[i]) = "error"
                       /\ media' \in {media, SetStatus(id, "failed")}
                       /\ r.jobID = 0 => runs'[i].pc = "done"
                 /\ (Steps(i) /\ r.pc \in {"jobCompleted", "jobFailed"})
                    => /\ Outcome(runs'[i]) = Outcome(r)
                       /\ media' = media]_vars

\* a run without a job row has set the status ready and returned nil
C13_Witness ==
    /\ Len(runs) = 1
    /\ jobs = <<>>
    /\ runs[1].jobID = 0
    /\ runs[1].pc = "done" /\ runs[1].ret = "nil"
    /\ runs[1].uploaded
    /\ StatusOf(runs[1].media_id) = "ready"

\* The errors transcodeVideo returns when the object store cannot be reached.
TransportFailures ==
    { Some(Wrap("failed to create MinIO client", ErrTransport)),
      Some(Wrap("failed to download file", ErrTransport)),
      Some(Wrap("failed to upload processed file", ErrTransport)) }

\* C14: when a run whose transcode sequence met a transport error returns,
\* it returns an error, the item's status is failed, and the job row the run
\* created (if any) is failed with that error's message.
C14_TransportFailureRecorded ==
    [][\A i \in 1..Len(runs) :
          (/\ Returns(i)
           /\ runs[i].err \in TransportFailures
           /\ HasRow(runs[i].media_id))
          => /\ runs'[i].ret = "error"
             /\ media'[runs[i].media_id].status = "failed"
             /\ runs[i].jobID # 0
                => /\ jobs'[runs[i].jobID].status = "failed"
                   /\ jobs'[runs[i].jobID].error_message
                         = Some(runs[i].err[1])]_vars

\* The probe of run r exits non-zero, or prints something that is no number.
ProbeFails(r) ==
    /\ r.probeRun # <<>>
    /\ \/ r.probeRun[1] = "failed"
       \/ r.probeRun[1] = "ok" /\ r.probeRun[2][1] # "num"

\* C15: when the probe of a run exits non-zero or prints no number, the
\* duration it yields is 0, the step writes nothing to the media store, and
\* transcodeVideo goes on, without an error, to the upload of the artifact;
\* the upload then puts the artifact in the bucket unless the upload itself
\* fails, and the run is on the way every successful run takes to status
\* ready and the return of nil.
C15_ProbeFailureNotFatal ==
    [][\A i \in 1..Len(runs) :
          /\ (Steps(i) /\ runs[i].pc = "probeWait" /\ ProbeFails(runs[i]))
             => /\ getVideoDuration(runs[i].probeRun[1], runs[i].probeRun[2]) = 0
                /\ media' = media
                /\ runs'[i].pc = "upload"
                /\ runs'[i].err = NULL
                /\ runs'[i].proc = "none"
          /\ (Steps(i) /\ runs[i].pc = "upload" /\ ProbeFails(runs[i]))
             => \/ /\ runs'[i].pc = "updateSize"
                   /\ runs'[i].uploaded
                   /\ ProcessedKey(runs[i].media_id) \in objects'
                \/ /\ runs'[i].pc = "markFailed"
                   /\ runs'[i].err \in
                        { Some(Wrap("failed to open output file", ErrLocal)),
                          Some(Wrap("failed to upload processed file", ErrTransport)),
                          Some(Wrap("failed to upload processed file", ErrCanceled)) }
                   /\ objects' = objects]_vars

\* a probe has exited non-zero, and the run stands before the upload with no
\* error and with no duration written
C15_Witness ==
    \E i \in 1..Len(runs) :
        /\ runs[i].pc = "upload"
        /\ runs[i].probeRun # <<>>
        /\ runs[i].probeRun[1] = "failed"
        /\ runs[i].err = NULL
        /\ HasRow(runs[i].media_id)
        /\ media[runs[i].media_id].duration_seconds = NULL

\* The positions of a run inside transcodeVideo, after os.MkdirTemp.
InTranscode ==
    {"download", "encode", "encodeWait", "probe", "probeWait", "upload",
     "updateSize"}

\* C16: the scratch directory of a run exists only while the run is inside
\* transcodeVideo: whenever transcodeVideo has returned, on whatever path,
\* and so whenever the handler has returned, the directory is gone.
C16_ScratchRemoved ==
    \A i \in 1..Len(runs) :
        /\ runs[i].pc \notin InTranscode => ~runs[i].tempDir
        /\ runs[i].pc \in InTranscode => runs[i].tempDir

\* one run is back from transcodeVideo with the encoder's failure, another
\* has uploaded its artifact and returned: neither has a scratch directory
C16_Witness ==
    \E i, j \in 1..Len(runs) :
        /\ runs[i].pc = "markFailed"
        /\ runs[i].err = EncoderFailure
        /\ ~runs[i].tempDir
        /\ runs[j].pc = "done"
        /\ runs[j].uploaded
        /\ ~runs[j].tempDir

\* C17: a run has an external process only while it waits for it, so none
\* once the handler has returned; the step in which a waiting run meets the
\* cancellation of its context leaves no process; and a run that has met the
\* cancellation uploads no artifact in any later step and has no scratch
\* directory, and so no output file, once it is out of transcodeVideo.
C17_CancelKillsProcess ==
    [][\A i \in 1..Len(runs) :
          LET r == runs[i]
              n == runs'[i]
          IN  /\ n.proc # "none" => n.pc \in {"encodeWait", "probeWait"}
              /\ (r.proc # "none" /\ n.cancelled) => n.proc = "none"
              /\ (Steps(i) /\ (r.cancelled \/ n.cancelled))
                 => /\ n.uploaded = r.uploaded
                    /\ objects' = objects
                    /\ n.pc \notin InTranscode => ~n.tempDir]_vars

\* the encoder of a run was killed on cancellation: the run is back in
\* processMedia with the error, without process, scratch directory or upload
C17_Witness ==
    \E i \in 1..Len(runs) :
        /\ runs[i].pc = "markFailed"
        /\ runs[i].err = Some(Wrap("ffmpeg transcoding failed", ErrKilled))
        /\ runs[i].cancelled
        /\ runs[i].proc = "none"
        /\ ~runs[i].tempDir
        /\ ~runs[i].uploaded

\* The errors transcodeVideo returns when the handler's context is cancelled.
CancelFailures ==
    { Some(Wrap("failed to download file", ErrCanceled)),
      Some(Wrap("ffmpeg transcoding failed", ErrCanceled)),
      Some(Wrap("ffmpeg transcoding failed", ErrKilled)),
      Some(Wrap("failed to upload processed file", ErrCanceled)) }

\* C18: when a run whose transcode sequence failed on the cancellation of
\* its context returns, the item's status is failed and the job row the run
\* created is failed, with an error message and completed_at.
C18_CancelFailureRecorded ==
    [][\A i \in 1..Len(runs) :
          (/\ Returns(i)
           /\ runs[i].err \in CancelFailures
           /\ HasRow(runs[i].media_id))
          => /\ media'[runs[i].media_id].status = "failed"
             /\ runs[i].jobID # 0
                => /\ jobs'[runs[i].jobID].status = "failed"
                   /\ jobs'[runs[i].jobID].error_message # NULL
                   /\ jobs'[runs[i].jobID].completed_at # NULL]_vars

\* C19: when a run returns nil, the job row it created (if any) is completed
\* and has its completed_at.
C19_JobCompletedBeforeSuccess ==
    [][\A i \in 1..Len(runs) :
          (Returns(i) /\ runs'[i].ret = "nil" /\ runs[i].jobID # 0)
          => /\ jobs'[runs[i].jobID].status = "completed"
             /\ jobs'[runs[i].jobID].completed_at # NULL]_vars

\* In the calls d of a run, every call among ops comes after a call before.
After(d, ops, before) ==
    \A k \in 1..Len(d) :
        d[k] \in ops => \E j \in 1..(k - 1) : d[j] = before

\* C20: in every run the insert of the job row comes before the write of
\* status processing, and that write before any download, encoder or probe
\* call; a run for a video key writes status ready only after its upload of
\* processed/<media_id>.mp4 has completed; and the job row of a run is
\* closed only by that run, after it has made its final status write.
C20_StepOrder ==
    [][\A i \in 1..Len(runs) :
          LET r == runs[i]
              n == runs'[i]
          IN  /\ Steps(i)
                 => /\ After(n.did, {"setProcessing"}, "insert")
                    /\ After(n.did, TranscodeCalls, "setProcessing")
                    /\ After(n.did, {"setReady", "setFailed"}, "setProcessing")
              /\ (Steps(i) /\ r.pc = "setReady" /\ isVideoFile(r.s3_key))
                 => /\ Called(r, {"upload"})
                    /\ r.uploaded
                    /\ r.processedKey = ProcessedKey(r.media_id)
              /\ (r.jobID # 0 /\ jobs'[r.jobID] # jobs[r.jobID])
                 => /\ Steps(i)
                    /\ Called(r, {"setReady", "setFailed"})]_vars

\* a run for a video key has made every call of the sequence and stands
\* before the closing of its job row
C20_Witness ==
    \E i \in 1..Len(runs) :
        /\ runs[i].pc = "jobCompleted"
        /\ runs[i].did = <<"insert", "setProcessing", "download", "encode",
                           "probe", "upload", "setReady">>
        /\ runs[i].uploaded
        /\ jobs[runs[i].jobID].status = "processing"

\* The extension of key, in lower case, is none of the eleven of the list.
NotInAllowList(key) ==
    \A k \in 1..Len(videoExts) : ToLower(Ext(key)) # videoExts[k]

\* C21: a run for a key whose extension is not in the list is never at a
\* position of the encoder, the probe or the upload, has no process, and has
\* made none of these calls; none of its steps changes the bucket or the
\* item's duration_seconds or size_bytes; and when its download succeeds
\* transcodeVideo returns the empty key and no error.
C21_NonVideoSkipped ==
    [][\A i \in 1..Len(runs) :
          LET r == runs[i]
              n == runs'[i]
              id == r.media_id
          IN  (Steps(i) /\ NotInAllowList(r.s3_key))
              => /\ n.pc \notin {"encode", "encodeWait", "probe", "probeWait",
                                  "upload", "updateSize"}
                 /\ n.proc = "none"
                 /\ ~n.uploaded
                 /\ ~Called(n, {"encode", "probe", "upload"})
                 /\ objects' = objects
                 /\ HasRow(id)
                    => /\ media'[id].duration_seconds = media[id].duration_seconds
                       /\ media'[id].size_bytes = media[id].size_bytes
                 /\ (r.pc = "download" /\ n.pc # "markFailed")
                    => /\ n.pc = "setReady"
                       /\ n.processedKey = <<>>
                       /\ n.err = NULL
                       /\ ~n.tempDir]_vars

\* a run for a .pdf key is back from transcodeVideo without an error
C21_Witness ==
    \E i \in 1..Len(runs) :
        /\ runs[i].pc = "setReady"
        /\ NotInAllowList(runs[i].s3_key)
        /\ Ext(runs[i].s3_key) = <<".", "p", "d", "f">>
        /\ runs[i].did = <<"insert", "setProcessing", "download">>
        /\ runs[i].err = NULL

\* C22: when a run whose encoder exited non-zero marks its job row failed,
\* the error message it stores is what the encoder printed.
C22_EncoderOutputStored ==
    [][\A i \in 1..Len(runs) :
          (/\ Steps(i)
           /\ runs[i].pc = "jobFailed"
           /\ runs[i].err = EncoderFailure
           /\ jobs'[runs[i].jobID].status = "failed")
          => jobs'[runs[i].jobID].error_message = Some(EncoderOutput)]_vars

\* This step is one of the processing core: a handler starts or moves on, or
\* a status query is answered.
CoreStep == runs' # runs \/ resp' # NoResp

\* C23: every step keeps the job rows there are and adds at most one, and a
\* row is added only by the start of a handler, which adds no second one
\* later: the rows are never more than the invocations, and no two
\* invocations have the same row.  No step of the core removes a media row.
C23_CoreDeletesNoRow ==
    [][/\ Len(jobs) <= Len(jobs') /\ Len(jobs') <= Len(jobs) + 1
       /\ \A k \in 1..Len(jobs) : jobs'[k].media_id = jobs[k].media_id
       /\ Len(jobs') = Len(jobs) + 1
          => /\ Len(runs') = Len(runs) + 1
             /\ runs'[Len(runs')].jobID = Len(jobs')
       /\ Len(jobs') <= Len(runs')
       /\ \A i, j \in 1..Len(runs') :
             (i # j /\ runs'[i].jobID # 0) => runs'[i].jobID # runs'[j].jobID
       /\ \A i \in 1..Len(runs) : runs'[i].jobID = runs[i].jobID
       /\ CoreStep => DOMAIN media' = DOMAIN media]_vars

\* two handler invocations for one item have returned, one of them with an
\* error, and a status query has been answered: both job rows and the media
\* row are there
C23_Witness ==
    /\ Len(runs) = 2 /\ Len(jobs) = 2
    /\ runs[1].pc = "done" /\ runs[2].pc = "done"
    /\ runs[1].ret = "error"
    /\ runs[1].media_id = runs[2].media_id
    /\ HasRow(runs[1].media_id)
    /\ StatusOf(runs[1].media_id) = "failed"
    /\ resp.kind = "ok"

\* The status values the steps of this transition give to media rows: the
\* value of every new row and of every row whose status changes.
StatusWritten ==
    {media'[id].status : id \in {k \in DOMAIN media' :
                                  StatusIn(media, k) # media'[k].status}}

\* C24: a step that is not a handler's leaves the job rows as they are and
\* gives a media row no status but uploading (to a new row) and queued (to a
\* row there is); a handler's step gives a media row no status but
\* processing, ready and failed, and creates no media row.
C24_WriterSeparation ==
    [][/\ runs' = runs
          => /\ jobs' = jobs
             /\ StatusWritten \subseteq {"uploading", "queued"}
             /\ \A id \in DOMAIN media' :
                   /\ id \notin DOMAIN media => media'[id].status = "uploading"
                   /\ (id \in DOMAIN media /\ media'[id].status # media[id].status)
                      => media'[id].status = "queued"
       /\ runs' # runs
          => /\ StatusWritten \subseteq {"processing", "ready", "failed"}
             /\ DOMAIN media' \subseteq DOMAIN media]_vars

\* ConfirmUpload has set an item back to queued whose handler had finished
\* and closed its job row
C24_Witness ==
    /\ Len(jobs) = 1
    /\ jobs[1].status = "completed"
    /\ jobs[1].completed_at # NULL
    /\ StatusOf(jobs[1].media_id) = "queued"

\* C25: no step changes a job row whose status is completed or failed, and
\* a job row changes only in the step in which the invocation that inserted
\* it returns, so at most once.
C25_TerminalJobAbsorbing ==
    [][\A k \in 1..Len(jobs) :
          /\ jobs[k].status \in {"completed", "failed"} => jobs'[k] = jobs[k]
          /\ jobs'[k] # jobs[k]
             => \E i \in 1..Len(runs) : runs[i].jobID = k /\ Returns(i)]_vars

\* the first of two invocations for one item completed its job row, the
\* second has since failed and closed its own
C25_Witness ==
    /\ Len(jobs) = 2 /\ Len(runs) = 2
    /\ jobs[1].media_id = jobs[2].media_id
    /\ jobs[1].status = "completed" /\ jobs[1].error_message = NULL
    /\ jobs[2].status = "failed"
    /\ runs[1].jobID = 1 /\ runs[2].jobID = 2
    /\ runs[2].pc = "done"

\* C26: every job row has one of the four status values and its started_at;
\* it has its completed_at exactly when its status is completed or failed;
\* and it has an error message only when its status is failed.
C26_JobRowWellFormed ==
    \A k \in 1..Len(jobs) :
        /\ jobs[k].status \in {"pending", "processing", "completed", "failed"}
        /\ jobs[k].started_at # NULL
        /\ jobs[k].completed_at # NULL
           <=> jobs[k].status \in {"completed", "failed"}
        /\ jobs[k].error_message # NULL => jobs[k].status = "failed"

\* a failed row with its message and time beside a row still in processing
C26_Witness ==
    /\ Len(jobs) = 2
    /\ jobs[1].status = "failed"
    /\ jobs[1].error_message # NULL
    /\ jobs[1].completed_at # NULL
    /\ jobs[2].status = "processing"
    /\ jobs[2].completed_at = NULL

\* C27: when a run that has set the status processing returns, and every
\* other run for the media id has returned, the item's status is not
\* processing.
C27_NotStuckInProcessing ==
    [][\A i \in 1..Len(runs) :
          (/\ Returns(i)
           /\ runs[i].pc # "setProcessing"
           /\ HasRow(runs[i].media_id)
           /\ \A j \in 1..Len(runs) :
                 (j # i /\ runs[j].media_id = runs[i].media_id)
                 => runs[j].pc = "done")
          => media'[runs[i].media_id].status # "processing"]_vars

\* C28: whenever an item has the status ready and a processed key, the
\* bucket holds an object at that key, and the key is processed/<id>.mp4.
C28_ArtifactExists ==
    \A id \in DOMAIN media :
        (media[id].status = "ready" /\ KeySet(media[id]))
        => /\ media[id].s3_key_processed = Some(ProcessedKey(id))
           /\ media[id].s3_key_processed[1] \in objects

\* C29, for the first run there is: when its transcode sequence has failed,
\* the item has no duration (no one else writes that column, and the row was
\* inserted without one), a size that is not the output file's, and no
\* processed key: what it had before the run.
C29_FailedRunWritesOnlyStatus ==
    (/\ Len(runs) = 1
     /\ runs[1].pc \in {"markFailed", "jobFailed"}
     /\ HasRow(runs[1].media_id))
    => LET row == media[runs[1].media_id]
       IN  /\ row.duration_seconds = NULL
           /\ row.size_bytes \notin {Some(size) : size \in OutputSizes}
           /\ ~KeySet(row)

\* C30, what progress needs: an item whose status is queued has its event
\* on the topic.  Where this fails, ConfirmUpload has returned success, there
\* is nothing for the transport to deliver and no handler to run, and the
\* item stays queued for as long as no client calls again.
C30_QueuedHasEvent ==
    \A id \in DOMAIN media :
        media[id].status = "queued"
        => \E msg \in published : msg.media_id = id

\* DeleteMedia(id) has returned success: the id was issued and its row is
\* gone (only DeleteMedia's DELETE removes a row of media).
Deleted(id) ==
    /\ \E k \in 1..nextID : IDPool[k] = id
    /\ ~HasRow(id)

RunsFinished(id) ==
    \A i \in 1..Len(runs) : runs[i].media_id = id => runs[i].pc = "done"

\* C31: once DeleteMedia(id) has succeeded and every run for id has
\* finished, the bucket holds no object at processed/<id>.mp4; and a run that
\* returns after the deletion does not return nil, nor is its job row
\* completed.
C31_DeletionWins ==
    [][/\ \A id \in RequestIDs :
             (Deleted(id)' /\ RunsFinished(id)')
             => ProcessedKey(id) \notin objects'
       /\ \A i \in 1..Len(runs) :
             (Returns(i) /\ Deleted(runs[i].media_id))
             => /\ runs'[i].ret = "error"
                /\ runs[i].jobID # 0
                   => jobs'[runs[i].jobID].status # "completed"]_vars

\* C32: a GetMedia response carries a stream URL only when the item's status
\* is ready at the call, and then one for the processed key when that key is
\* not empty and for the original key otherwise; for an item that is
\* uploading, queued, processing or failed, and for a requester who is not
\* the owner, it carries none.
C32_StreamOnlyWhenReady ==
    /\ resp.kind = "media"
       => LET row == media[resp.id]
          IN  /\ resp.status = row.status
              /\ resp.stream_url # NULL
                 => /\ row.status = "ready"
                    /\ resp.stream_url =
                         IF row.s3_key_processed \in {NULL, Some(<<>>)}
                         THEN Some(row.s3_key_original)
                         ELSE row.s3_key_processed
              /\ row.status \in {"uploading", "queued", "processing", "failed"}
                 => resp.stream_url = NULL
    /\ resp.kind = "media error"
       => \/ resp.code = "not_found" /\ ~HasRow(resp.id)
          \/ resp.code = "permission_denied" /\ HasRow(resp.id)

\* a video that was transcoded is streamed from its processed key
C32_Witness ==
    /\ resp.kind = "media"
    /\ resp.status = "ready"
    /\ resp.stream_url = Some(ProcessedKey(resp.id))
    /\ resp.stream_url # Some(media[resp.id].s3_key_original)

\* The response to a GetCollection request for a collection that exists.
Answered == "request" \in DOMAIN resp /\ HasCollection(resp.request.id)

\* One of the three access rules holds for the request answered: owner,
\* public, or a token that is not empty and is the current share token.
RuleHolds ==
    LET row == collections[resp.request.id]
    IN  \/ resp.request.user = row.owner_id
        \/ row.is_public
        \/ resp.request.token # "" /\ resp.request.token = row.share_token

Updates(k) ==
    /\ updates[k].pc = "update"
    /\ updates'[k].pc = "idle"
    /\ resp'.kind = "share"

\* C35: once an UpdateShare with regenerate_token has succeeded, a request
\* to the collection, while it is not public, by someone who is not its
\* owner and presents a token that a regeneration replaced is denied; the
\* regenerating call leaves its new token in place; and an UpdateShare
\* without regenerate_token leaves the token as it was.
C35_RotationSticks ==
    [][/\ (Answered /\ ~collections[resp.request.id].is_public
                    /\ resp.request.user # collections[resp.request.id].owner_id
                    /\ resp.request.token \in retired)'
          => (resp.kind = "collection error"
              /\ resp.code = "permission_denied")'
       /\ \A k \in 1..MaxUpdates :
             Updates(k)
             => LET id == updates[k].id
                IN  IF updates[k].regenerate
                    THEN /\ collections'[id].share_token = resp'.share_token
                         /\ resp'.share_token \notin retired'
                    ELSE collections'[id].share_token
                            = collections[id].share_token]_vars

\* Handler h, in Logout, takes a step of its loop.
LogoutSteps(h) ==
    /\ handlers[h].pc = "next"
    /\ handlers'[h] # handlers[h]
    /\ handlers'[h].pc \in {"next", "idle"}
    /\ handlers' # [g \in 1..MaxHandlers |-> NoHandler] \/ MaxHandlers = 1

\* C33: once a Logout of user u has returned, no token issued to u by a
\* Callback that had returned when the Logout was called is in the session
\* table, so AuthHandler refuses it ("invalid session"); tokens issued later
\* are not concerned; and a step of Logout removes sessions of its own user
\* only.
C33_LogoutRevokesAll ==
    [][/\ \A t \in revoked' : t \notin DOMAIN sessions'
       /\ \A h \in 1..MaxHandlers :
             LogoutSteps(h)
             => \A t \in DOMAIN sessions :
                   sessions[t].UserID # handlers[h].user
                   => /\ t \in DOMAIN sessions'
                      /\ sessions'[t] = sessions[t]]_vars

\* C36: no two requests in flight are both about to access the map sessions
\* with one of them writing it: since no lock or channel orders the handlers,
\* such a pair is a data race.
C36_RaceFree ==
    \A h, g \in 1..MaxHandlers :
        (h # g /\ Pending(h) /\ Pending(g)) => ~(Writes(h) \/ Writes(g))

=============================================================================
